---- MODULE Spec2Model ----
(***************************************************************************)
(* Model of pygeosolve/constraints.py: the constraint classes               *)
(* (AbstractConstraint, LineLengthConstraint, AngularConstraint,            *)
(* PointToPointDistanceConstraint) over a small sketch of shared            *)
(* Parameters, Points and Lines.                                            *)
(*                                                                          *)
(* Parameters are objects of an arena, named by their identity (ParamId);   *)
(* a Point holds two Parameter identities, a Line two Point identities.     *)
(* Scalars (coordinates, lengths, angles in degrees) are integers: a        *)
(* square root or an arc tangent is rounded to the model's resolution of    *)
(* one unit, where the program rounds to the resolution of a float.         *)
(***************************************************************************)
EXTENDS Integers, Sequences, FiniteSets

VARIABLES value, constraints, ret

vars == <<value, constraints, ret>>

\* ------------------------------------------------------------ bounds

\* At most this many constraint objects exist at a time.
MaxConstraints == 2

\* ------------------------------------------------------------ the sketch

\* The Parameter objects, by identity.
ParamIds == 1 .. 3

\* The values a Parameter is given.
Vals == {0, 3, 4}

\* The Point objects, by identity.
PointIds == 1 .. 3

\* Point 1 = (p1, p2); Point 2 = (p3, p3): one Parameter is both its x and
\* its y; Point 3 = (p1, p3): it shares its x with Point 1 and its y with
\* Point 2.
Point == <<[x |-> 1, y |-> 2], [x |-> 3, y |-> 3], [x |-> 1, y |-> 3]>>

\* A Primitive: a Line (start, end) or a Point (start = end = the point).
MkLine(s, e) == [kind |-> "Line", start |-> s, end |-> e]

MkPoint(p) == [kind |-> "Point", start |-> p, end |-> p]

\* The Line objects of the sketch: they share Point 1.
Lines == {MkLine(2, 1), MkLine(1, 3)}

\* The targets handed to the constructors and to the length setter.
Lengths == {-1, 0, 4, 5}

Angles == {0, 360}

Distances == {-1, 5}

\* The (line_a, line_b) pairs handed to AngularConstraint: two lines that
\* share a Point, and one Line given twice.
LinePairs == {<<MkLine(2, 1), MkLine(1, 3)>>, <<MkLine(2, 1), MkLine(2, 1)>>}

\* The (point_a, point_b) pairs handed to PointToPointDistanceConstraint:
\* two Points with no common Parameter, and one Point given twice.
PointPairs == {<<2, 1>>, <<3, 3>>}

\* ------------------------------------------------------------ scalars

Abs(n) == IF n < 0 THEN -n ELSE n

\* The integer square root: sqrt rounded down to the model's resolution.
ISqrt(n) == CHOOSE r \in 0 .. n : r * r <= n /\ (r + 1) * (r + 1) > n

\* The outcome of a scalar computation: a number, or undefined (a division
\* by zero: a NaN or a ZeroDivisionError, whichever the arithmetic gives).
Defined(n) == [kind |-> "value", v |-> n]

Undefined == [kind |-> "undefined", v |-> 0]

\* ------------------------------------------------------------ geometry

\* Point.x.value, Point.y.value: a Point dereferences its live Parameters.
X(pt) == value[Point[pt].x]

Y(pt) == value[Point[pt].y]

\* Point.__sub__: the component-wise difference, an unparameterised vector.
Sub(a, b) == [dx |-> X(a) - X(b), dy |-> Y(a) - Y(b)]

\* The Euclidean magnitude of a vector.
Magnitude(vec) == ISqrt(vec.dx * vec.dx + vec.dy * vec.dy)

\* Line.vector(): end - start.
Vector(l) == Sub(l.end, l.start)

\* Line.hypot(): the length of the line.
hypot(l) == Magnitude(Vector(l))

\* Primitive.points: a Line's are [start, end], a Point's is [itself].
PrimitivePoints(prim) ==
    IF prim.kind = "Line" THEN <<prim.start, prim.end>> ELSE <<prim.start>>

\* arctan(n / m) in degrees for 0 < n, 0 < m, rounded to the degree.
AtanDeg(n, m) ==
    CASE n = m -> 45
      [] 3 * n = m -> 18
      [] 4 * n = m -> 14
      [] 4 * n = 3 * m -> 37
      [] 3 * n = 4 * m -> 53
      [] n = 3 * m -> 72
      [] n = 4 * m -> 76

\* The direction of a non-zero vector in degrees, in (-180, 180].
Atan2Deg(dy, dx) ==
    IF dx = 0 THEN (IF dy > 0 THEN 90 ELSE -90)
    ELSE IF dy = 0 THEN (IF dx > 0 THEN 0 ELSE 180)
    ELSE LET a == AtanDeg(Abs(dy), Abs(dx))
         IN  IF dx > 0 THEN (IF dy > 0 THEN a ELSE -a)
             ELSE (IF dy > 0 THEN 180 - a ELSE a - 180)

\* tools.angle_between: the angle in degrees between the two lines'
\* directions (start -> end), by the dot product and arccos, so in
\* [0, 180]; normalising a zero-length direction divides by zero.
angle_between(la, lb) ==
    LET va == Vector(la)
        vb == Vector(lb)
    IN  IF (va.dx = 0 /\ va.dy = 0) \/ (vb.dx = 0 /\ vb.dy = 0)
        THEN Undefined
        ELSE LET d == Abs(Atan2Deg(va.dy, va.dx) - Atan2Deg(vb.dy, vb.dx))
             IN  Defined(IF d > 180 THEN 360 - d ELSE d)

\* ------------------------------------------------------------ constraints

\* A constraint object: its class, its primitives list and its target
\* (_length, angle or distance).
NoConstraint == [type |-> "None", primitives |-> <<>>, target |-> 0]

\* The object each constructor leaves behind.
LineLengthConstraint(l, length) ==
    [type |-> "LineLength", primitives |-> <<l>>, target |-> length]

AngularConstraint(la, lb, angle) ==
    [type |-> "Angular", primitives |-> <<la, lb>>, target |-> angle]

PointToPointDistanceConstraint(pa, pb, distance) ==
    [type |-> "PointToPointDistance",
     primitives |-> <<MkPoint(pa), MkPoint(pb)>>, target |-> distance]

\* functools.reduce(operator.add, lists): the lists concatenated in order.
RECURSIVE Concat(_)
Concat(lists) ==
    IF Len(lists) = 1 THEN Head(lists)
    ELSE Head(lists) \o Concat(Tail(lists))

\* Mutant of points: the concatenation with repeated Points dropped.
RECURSIVE DedupSeq(_, _)
DedupSeq(seq, acc) ==
    IF seq = <<>> THEN acc
    ELSE DedupSeq(Tail(seq),
                  IF \E i \in 1 .. Len(acc) : acc[i] = Head(seq) THEN acc
                  ELSE Append(acc, Head(seq)))

pointsDeduplicated(c) ==
    DedupSeq(Concat([i \in 1 .. Len(c.primitives) |-> PrimitivePoints(c.primitives[i])]), <<>>)

\* AbstractConstraint.points
points(c) == Concat([i \in 1 .. Len(c.primitives) |-> PrimitivePoints(c.primitives[i])])

\* Parameter == Parameter: Parameter defines no __eq__, so two Parameters
\* are equal when they are one object.
ParamEq(p, q) == p = q

\* Mutant of NotIn: membership by the Parameters' values.
NotInByValue(p, list) == \A i \in 1 .. Len(list) : value[list[i]] # value[p]

\* `param not in params`: no element of the list is, or equals, param.
NotIn(p, list) == \A i \in 1 .. Len(list) : ~ParamEq(list[i], p)

\* Mutant of AppendPoint: y is appended without the membership test.
AppendPointUnchecked(acc, pt) ==
    LET withX == IF NotIn(Point[pt].x, acc) THEN Append(acc, Point[pt].x) ELSE acc
    IN  Append(withX, Point[pt].y)

\* A copy of Parameter p: a new object, of another identity.
CopyOf(p) == p + Cardinality(ParamIds)

\* Mutant of AppendPoint: copies of the Parameters are appended.
AppendPointCopies(acc, pt) ==
    LET withX == IF NotIn(CopyOf(Point[pt].x), acc)
                 THEN Append(acc, CopyOf(Point[pt].x)) ELSE acc
    IN  IF NotIn(CopyOf(Point[pt].y), withX)
        THEN Append(withX, CopyOf(Point[pt].y)) ELSE withX

\* The body of the loop of AbstractConstraint.params, for one point.
AppendPoint(acc, pt) ==
    LET withX == IF NotIn(Point[pt].x, acc) THEN Append(acc, Point[pt].x) ELSE acc
    IN  IF NotIn(Point[pt].y, withX) THEN Append(withX, Point[pt].y) ELSE withX

RECURSIVE ParamsLoop(_, _)
ParamsLoop(pts, acc) ==
    IF pts = <<>> THEN acc
    ELSE ParamsLoop(Tail(pts), AppendPoint(acc, Head(pts)))

\* AbstractConstraint.params
params(c) == ParamsLoop(points(c), <<>>)

\* LineLengthConstraint.line, AngularConstraint.line_a / line_b,
\* PointToPointDistanceConstraint.point_a / point_b
line(c) == c.primitives[1]

line_a(c) == c.primitives[1]

line_b(c) == c.primitives[2]

point_a(c) == c.primitives[1]

point_b(c) == c.primitives[2]

\* float(length): the number itself, as a float.
ToFloat(x) == x

\* Mutant of LengthSetter: a negative length is clamped to 0, not refused.
LengthSetterClamping(length) ==
    [raised |-> FALSE, length |-> IF ToFloat(length) < 0 THEN 0 ELSE ToFloat(length)]

\* The length setter: raises ValueError for a negative length, stores the
\* float otherwise.
LengthSetter(length) ==
    IF ToFloat(length) < 0
    THEN [raised |-> TRUE, length |-> 0]
    ELSE [raised |-> FALSE, length |-> ToFloat(length)]

\* Mutant of LineLengthError: the signed difference, np.abs left out.
LineLengthErrorSigned(c) == Defined(hypot(line(c)) - c.target)

\* LineLengthConstraint.error
LineLengthError(c) == Defined(Abs(hypot(line(c)) - c.target))

\* Mutant of AngularError: the difference reduced modulo 360 to [0, 180].
AngularErrorWrapped(c) ==
    LET ab == angle_between(line_a(c), line_b(c))
        d == Abs(ab.v - c.target) % 360
    IN  IF ab.kind = "undefined" THEN Undefined
        ELSE Defined(IF d > 180 THEN 360 - d ELSE d)

\* AngularConstraint.error: np.abs of a failed angle_between fails too.
AngularError(c) ==
    LET ab == angle_between(line_a(c), line_b(c))
    IN  IF ab.kind = "undefined" THEN Undefined
        ELSE Defined(Abs(ab.v - c.target))

\* PointToPointDistanceConstraint.error
PointToPointDistanceError(c) ==
    Defined(Abs(Magnitude(Sub(point_a(c).start, point_b(c).start)) - c.target))

\* error(), dispatched on the constraint's class.
error(c) ==
    CASE c.type = "LineLength" -> LineLengthError(c)
      [] c.type = "Angular" -> AngularError(c)
      [] c.type = "PointToPointDistance" -> PointToPointDistanceError(c)

\* ------------------------------------------------------------ the state

\* What the last call did: the operation, the constraint it was made on
\* (or made), whether it raised, what it returned (res: a scalar outcome,
\* list: a list), the Parameter written (h) and the number handed in (v:
\* the target of a constructor or setter, the value of a write).
Ret(op, c, raised, res, list, h, v) ==
    [op |-> op, c |-> c, raised |-> raised, res |-> res, list |-> list,
     h |-> h, v |-> v]

NoRet == Ret("none", NoConstraint, FALSE, Undefined, <<>>, 0, 0)

Init ==
    /\ value = [p \in ParamIds |-> 0]
    /\ constraints = {}
    /\ ret = NoRet

\* LineLengthConstraint(line, length): the parent's constructor, then the
\* length setter; a ValueError leaves no object behind.
NewLineLengthConstraint(l, length) ==
    LET out == LengthSetter(length)
        c == LineLengthConstraint(l, out.length)
    IN  /\ Cardinality(constraints) < MaxConstraints
        /\ constraints' = IF out.raised THEN constraints ELSE constraints \cup {c}
        /\ ret' = Ret("new_length", IF out.raised THEN NoConstraint ELSE c,
                      out.raised, Undefined, <<>>, 0, length)
        /\ UNCHANGED value

\* c.length = length on an existing LineLengthConstraint.
SetLength(c, length) ==
    LET out == LengthSetter(length)
        d == [c EXCEPT !.target = out.length]
    IN  /\ c.type = "LineLength"
        /\ constraints' = IF out.raised THEN constraints
                          ELSE (constraints \ {c}) \cup {d}
        /\ ret' = Ret("set_length", IF out.raised THEN c ELSE d, out.raised,
                      Undefined, <<>>, 0, length)
        /\ UNCHANGED value

\* AngularConstraint(line_a, line_b, angle)
NewAngularConstraint(la, lb, angle) ==
    LET c == AngularConstraint(la, lb, angle)
    IN  /\ Cardinality(constraints) < MaxConstraints
        /\ constraints' = constraints \cup {c}
        /\ ret' = Ret("new_angular", c, FALSE, Undefined, <<>>, 0, angle)
        /\ UNCHANGED value

\* PointToPointDistanceConstraint(point_a, point_b, distance)
NewPointToPointDistanceConstraint(pa, pb, distance) ==
    LET c == PointToPointDistanceConstraint(pa, pb, distance)
    IN  /\ Cardinality(constraints) < MaxConstraints
        /\ constraints' = constraints \cup {c}
        /\ ret' = Ret("new_distance", c, FALSE, Undefined, <<>>, 0, distance)
        /\ UNCHANGED value

\* Mutant of CallError: error() normalises a stored angle to [0, 360) in
\* place before it computes.
CallErrorNormalising(c) ==
    LET d == IF c.type = "Angular" THEN [c EXCEPT !.target = c.target % 360] ELSE c
    IN  /\ ret' = Ret("error", d, error(d).kind = "undefined", error(d), <<>>, 0, 0)
        /\ constraints' = (constraints \ {c}) \cup {d}
        /\ UNCHANGED value

\* c.error()
CallError(c) ==
    /\ ret' = Ret("error", c, error(c).kind = "undefined", error(c), <<>>, 0, 0)
    /\ UNCHANGED <<value, constraints>>

\* c.points
CallPoints(c) ==
    /\ ret' = Ret("points", c, FALSE, Undefined, points(c), 0, 0)
    /\ UNCHANGED <<value, constraints>>

\* c.params
CallParams(c) ==
    /\ ret' = Ret("params", c, FALSE, Undefined, params(c), 0, 0)
    /\ UNCHANGED <<value, constraints>>

\* The Parameters a caller obtains from the params of the constraints.
Handles == UNION {{params(c)[i] : i \in 1 .. Len(params(c))} : c \in constraints}

\* h.value = v, for h an element of some constraint's params.
WriteParam(h, v) ==
    /\ value' = [value EXCEPT ![h] = v]
    /\ ret' = Ret("write", NoConstraint, FALSE, Undefined, <<>>, h, v)
    /\ UNCHANGED constraints

Next ==
    \/ \E l \in Lines, length \in Lengths : NewLineLengthConstraint(l, length)
    \/ \E c \in constraints, length \in Lengths : SetLength(c, length)
    \/ \E ll \in LinePairs, angle \in Angles :
          NewAngularConstraint(ll[1], ll[2], angle)
    \/ \E pp \in PointPairs, distance \in Distances :
          NewPointToPointDistanceConstraint(pp[1], pp[2], distance)
    \/ \E c \in constraints : CallError(c)
    \/ \E c \in constraints : CallPoints(c)
    \/ \E c \in constraints : CallParams(c)
    \/ \E h \in Handles, v \in Vals : WriteParam(h, v)

Spec == Init /\ [][Next]_vars

\* points and params as functions of their input: one constraint of any
\* class, over any Lines and Points of the sketch (every ordered pair of
\* Points is a Line), under any Parameter values, and the two properties
\* read.
AllLines == {MkLine(s, e) : s \in PointIds, e \in PointIds}

AllConstraints ==
    {LineLengthConstraint(l, length) :
        l \in AllLines, length \in {n \in Lengths : ~LengthSetter(n).raised}}
    \cup {AngularConstraint(la, lb, angle) :
        la \in AllLines, lb \in AllLines, angle \in Angles}
    \cup {PointToPointDistanceConstraint(pa, pb, distance) :
        pa \in PointIds, pb \in PointIds, distance \in Distances}

InitAny ==
    /\ value \in [ParamIds -> Vals]
    /\ \E c \in AllConstraints : constraints = {c}
    /\ ret = NoRet

NextProperties ==
    \/ \E c \in constraints : CallPoints(c)
    \/ \E c \in constraints : CallParams(c)

SpecProperties == InitAny /\ [][NextProperties]_vars

\* ------------------------------------------------------------ properties

SeqSet(seq) == {seq[i] : i \in 1 .. Len(seq)}

NoDuplicates(seq) == \A i, j \in 1 .. Len(seq) : i # j => seq[i] # seq[j]

\* [p.x, p.y for p in c.points]
FlatParams(c) ==
    [k \in 1 .. 2 * Len(points(c)) |->
        IF k % 2 = 1 THEN Point[points(c)[(k + 1) \div 2]].x
        ELSE Point[points(c)[k \div 2]].y]

FirstIndex(seq, e) ==
    CHOOSE i \in 1 .. Len(seq) : seq[i] = e /\ \A j \in 1 .. i - 1 : seq[j] # e

\* out is seq with every element kept once, by identity, at its first place.
IsFirstSeenDedup(out, seq) ==
    /\ SeqSet(out) = SeqSet(seq)
    /\ NoDuplicates(out)
    /\ \A k, l \in 1 .. Len(out) :
          k < l => FirstIndex(seq, out[k]) < FirstIndex(seq, out[l])

\* The Parameters held by the points of c.
LiveParams(c) == UNION {{Point[pt].x, Point[pt].y} : pt \in SeqSet(points(c))}

\* The distance between two Points, from their coordinates.
Dist(a, b) ==
    ISqrt((X(a) - X(b)) * (X(a) - X(b)) + (Y(a) - Y(b)) * (Y(a) - Y(b)))

ZeroLength(l) == X(l.start) = X(l.end) /\ Y(l.start) = Y(l.end)

\* The quantity a constraint measures: a length, an angle or a distance.
Measured(c) ==
    CASE c.type = "LineLength" ->
           Defined(Dist(c.primitives[1].end, c.primitives[1].start))
      [] c.type = "Angular" -> angle_between(c.primitives[1], c.primitives[2])
      [] c.type = "PointToPointDistance" ->
           Defined(Dist(c.primitives[1].start, c.primitives[2].start))

\* |measured - target|, undefined where the measured quantity is.
AbsDifference(c) ==
    IF Measured(c).kind = "undefined" THEN Undefined
    ELSE Defined(Abs(Measured(c).v - c.target))

\* The number of points of the primitives before the k-th.
RECURSIVE Offset(_, _)
Offset(prims, k) ==
    IF k = 1 THEN 0
    ELSE Offset(prims, k - 1) + Len(PrimitivePoints(prims[k - 1]))

\* C1: for every constraint, whatever its primitives share, the list that
\* params returns holds no Parameter identity twice.
C1_ParamsNoDuplicates ==
    /\ \A c \in constraints : NoDuplicates(params(c))
    /\ ret.op = "params" => NoDuplicates(ret.list)

\* params was called on an AngularConstraint whose two lines share a Point
\* and one of whose Points has one Parameter as both x and y.
C1_Witness ==
    /\ ret.op = "params"
    /\ ret.c.type = "Angular"
    /\ \E i, j \in 1 .. Len(points(ret.c)) :
          i # j /\ points(ret.c)[i] = points(ret.c)[j]
    /\ \E i \in 1 .. Len(points(ret.c)) :
          Point[points(ret.c)[i]].x = Point[points(ret.c)[i]].y
    /\ Len(ret.list) = 3

\* C2: params is the first-seen-order de-duplication, by identity, of
\* [p.x, p.y for p in points]: every Parameter of a point appears exactly
\* once, and distinct Parameters of equal value are both kept.
C2_ParamsFirstSeenDedup ==
    /\ \A c \in constraints : IsFirstSeenDedup(params(c), FlatParams(c))
    /\ ret.op = "params" => IsFirstSeenDedup(ret.list, FlatParams(ret.c))

\* params returned two distinct Parameters that hold the same value, from
\* points that name some Parameter more than once.
C2_Witness ==
    /\ ret.op = "params"
    /\ \E i, j \in 1 .. Len(ret.list) :
          i # j /\ value[ret.list[i]] = value[ret.list[j]]
    /\ Len(ret.list) < Len(FlatParams(ret.c))

\* C3: a negative length raises, at construction and in the setter, and
\* nothing is stored or clamped; a length >= 0 (0 included) is accepted and
\* stored; so every LineLengthConstraint that exists has length >= 0.
C3_LengthState ==
    /\ \A c \in constraints : c.type = "LineLength" => c.target >= 0
    /\ ret.op \in {"new_length", "set_length"} =>
          IF ret.v < 0 THEN ret.raised
          ELSE ~ret.raised /\ ret.c \in constraints /\ ret.c.target = ret.v

C3_LengthStep ==
    (ret'.op \in {"new_length", "set_length"} /\ ret'.v < 0) =>
        constraints' = constraints

C4_ErrorIsAbsDifference ==
    /\ \A c \in constraints :
          /\ c.type = "LineLength" =>
                /\ error(c) = Defined(Abs(Dist(c.primitives[1].end,
                                               c.primitives[1].start) - c.target))
                /\ ( /\ X(c.primitives[1].start) = 0
                     /\ Y(c.primitives[1].start) = 0
                     /\ X(c.primitives[1].end) = 3
                     /\ Y(c.primitives[1].end) = 4 ) =>
                       /\ c.target = 5 => error(c) = Defined(0)
                       /\ c.target = 4 => error(c) = Defined(1)
          /\ c.type = "PointToPointDistance" =>
                error(c) = Defined(Abs(Dist(c.primitives[1].start,
                                            c.primitives[2].start) - c.target))
    /\ (ret.op = "error" /\ ret.c.type \in {"LineLength", "PointToPointDistance"}) =>
          ret.res = AbsDifference(ret.c)

\* error() returned 1 for the line from (0,0) to (3,4) and the target 4.
C4_Witness ==
    /\ ret.op = "error"
    /\ ret.c.type = "LineLength"
    /\ X(ret.c.primitives[1].start) = 0 /\ Y(ret.c.primitives[1].start) = 0
    /\ X(ret.c.primitives[1].end) = 3 /\ Y(ret.c.primitives[1].end) = 4
    /\ ret.c.target = 4
    /\ ret.res = Defined(1)

\* C5: for every constraint, target and Parameter assignment, error() is a
\* non-negative scalar, zero exactly when the measured quantity equals the
\* target.
C5_ErrorNonNegative ==
    \A c \in constraints :
        /\ error(c).kind = "value"
        /\ error(c).v >= 0
        /\ error(c).v = 0 <=> Measured(c) = Defined(c.target)

\* C6: error() of an AngularConstraint one of whose lines has zero length
\* returns a defined value: the degeneracy does not propagate.
C6_ZeroLengthLineGuarded ==
    ( /\ ret.op = "error"
      /\ ret.c.type = "Angular"
      /\ ZeroLength(ret.c.primitives[1]) \/ ZeroLength(ret.c.primitives[2]) ) =>
        ret.res.kind = "value" /\ ~ret.raised

\* C7: points is the concatenation of the primitives' points, in the order
\* of the primitives and then of the points of each, nothing removed: its
\* length is the sum of the primitives' point counts.
C7_PointsOf(c, pts) ==
    /\ Len(pts) = Offset(c.primitives, Len(c.primitives) + 1)
    /\ \A k \in 1 .. Len(c.primitives) :
          \A m \in 1 .. Len(PrimitivePoints(c.primitives[k])) :
              pts[Offset(c.primitives, k) + m] = PrimitivePoints(c.primitives[k])[m]

C7_PointsConcatenated ==
    /\ \A c \in constraints : C7_PointsOf(c, points(c))
    /\ ret.op = "points" => C7_PointsOf(ret.c, ret.list)

\* points of an AngularConstraint whose lines share Point 1 returned that
\* Point twice.
C7_Witness ==
    /\ ret.op = "points"
    /\ ret.c.type = "Angular"
    /\ ret.list = <<2, 1, 1, 3>>

\* C8: AngularConstraint.error() is |angle_between(line_a, line_b) - angle|
\* in degrees, not reduced modulo 360, and the constructor stores any angle
\* unchecked.
C8_AngularErrorRaw ==
    /\ \A c \in constraints :
          c.type = "Angular" =>
              LET ab == angle_between(c.primitives[1], c.primitives[2])
              IN  IF ab.kind = "value"
                  THEN error(c) = Defined(Abs(ab.v - c.target))
                  ELSE error(c).kind = "undefined"
    /\ ret.op = "new_angular" =>
          ~ret.raised /\ ret.c \in constraints /\ ret.c.target = ret.v
    /\ (ret.op = "error" /\ ret.c.type = "Angular") => ret.res = AbsDifference(ret.c)

\* error() returned 360 for the target 360 and an actual angle of 0.
C8_Witness ==
    /\ ret.op = "error"
    /\ ret.c.type = "Angular"
    /\ ret.c.target = 360
    /\ angle_between(ret.c.primitives[1], ret.c.primitives[2]) = Defined(0)
    /\ ret.res = Defined(360)

\* C9: a call of error(), points or params changes no Parameter value, no
\* primitives list and no stored target, and two consecutive error() calls
\* on one constraint return the same value.
C9_CallStep ==
    /\ ret'.op \in {"error", "points", "params"} =>
          value' = value /\ constraints' = constraints
    /\ (ret.op = "error" /\ ret'.op = "error" /\ ret'.c = ret.c) =>
          ret'.res = ret.res

C9_CallsHaveNoSideEffects == [][C9_CallStep]_vars

\* error() was called on an AngularConstraint that stores the angle 360.
C9_Witness ==
    /\ ret.op = "error"
    /\ ret.c \in constraints
    /\ ret.c.type = "Angular"
    /\ ret.c.target = 360

\* C10: the elements of params are the live Parameters of the constraint's
\* points: after a write through one of them, every point that holds the
\* Parameter reads the written value and the error of every constraint is
\* computed from it.
C10_ParamsAreLive ==
    /\ \A c \in constraints : SeqSet(params(c)) = LiveParams(c)
    /\ ret.op = "write" =>
          /\ \E c \in constraints : ret.h \in LiveParams(c)
          /\ value[ret.h] = ret.v
          /\ \A d \in constraints :
                /\ \A pt \in SeqSet(points(d)) :
                      /\ Point[pt].x = ret.h => X(pt) = ret.v
                      /\ Point[pt].y = ret.h => Y(pt) = ret.v
                /\ error(d) = AbsDifference(d)

\* A write of 4 through a Parameter that two constraints share brought the
\* error of one of them, a LineLengthConstraint of length 5, to 0.
C10_Witness ==
    /\ ret.op = "write"
    /\ ret.v = 4
    /\ \E c, d \in constraints :
          /\ d # c
          /\ c.type # "LineLength"
          /\ ret.h \in LiveParams(c)
          /\ ret.h \in LiveParams(d)
          /\ d.type = "LineLength"
          /\ d.target = 5
          /\ error(d) = Defined(0)

====
